---- MODULE Spec2Model ----
(***************************************************************************)
(* Model of autoshades.py: the slab-method ray/box test, the window        *)
(* sampler calculate_shading_requirements, the conversion to rail          *)
(* positions in calculate_current_shade_positions and the polling loop.    *)
(*                                                                         *)
(* All of the program's real arithmetic is IEEE-754 binary64 (numpy        *)
(* float64).  A float64 is modelled exactly: value = sign * mant * 2^exp   *)
(* with mant a 53-bit integer held in three base-2^18 limbs, and every     *)
(* operation rounds to nearest, ties to even, as the hardware does.        *)
(***************************************************************************)
EXTENDS Integers, Sequences, FiniteSets, TLC

VARIABLES ray_args, ray_ret, args, ret, pc, sun_pos, percents, json_output, posted

vars == <<ray_args, ray_ret, args, ret, pc, sun_pos, percents, json_output, posted>>

(***************************************************************************)
(* float64                                                                 *)
(***************************************************************************)
\* limb base 2^18; a normalised mantissa <<h, m, l>> has 2^16 <= h < 2^17
LimbBase == 2^18

MantMin == <<2^16, 0, 0>>

Zero == [sign |-> 1, exp |-> 0, mant |-> <<0, 0, 0>>]

One == [sign |-> 1, exp |-> -52, mant |-> MantMin]

\* np.inf / -np.inf: above (below) every finite float64 (largest exponent 971)
PosInf == [sign |-> 1, exp |-> 2000, mant |-> MantMin]

NegInf == [sign |-> -1, exp |-> 2000, mant |-> MantMin]

\* every comparison with a NaN is false
NaN == [sign |-> 1, exp |-> 2001, mant |-> MantMin]

IsZero(x) == x.mant = <<0, 0, 0>>

Abs(n) == IF n < 0 THEN -n ELSE n

Sgn(n) == IF n < 0 THEN -1 ELSE IF n > 0 THEN 1 ELSE 0

RECURSIVE BitLen(_)
BitLen(n) == IF n = 0 THEN 0 ELSE 1 + BitLen(n \div 2)

MantLt(a, b) ==
    \/ a[1] < b[1]
    \/ a[1] = b[1] /\ a[2] < b[2]
    \/ a[1] = b[1] /\ a[2] = b[2] /\ a[3] < b[3]

MantDbl(a) ==
    LET l == 2 * a[3]
        m == 2 * a[2] + l \div LimbBase
        h == 2 * a[1] + m \div LimbBase
    IN  <<h, m % LimbBase, l % LimbBase>>

\* a - b for a >= b
MantSub(a, b) ==
    LET l  == a[3] - b[3]
        bl == IF l < 0 THEN 1 ELSE 0
        m  == a[2] - b[2] - bl
        bm == IF m < 0 THEN 1 ELSE 0
    IN  <<a[1] - b[1] - bm, m + bm * LimbBase, l + bl * LimbBase>>

MantInc(a) ==
    LET l == a[3] + 1
        m == a[2] + l \div LimbBase
    IN  <<a[1] + m \div LimbBase, m % LimbBase, l % LimbBase>>

\* a float64 from a sign, an exponent and a mantissa below 2^53 + 1 after rounding
Pack(s, e, mant, roundUp) ==
    LET r == IF roundUp THEN MantInc(mant) ELSE mant
    IN  IF r[1] = 2^17
        THEN [sign |-> s, exp |-> e + 1, mant |-> MantMin]
        ELSE [sign |-> s, exp |-> e, mant |-> r]

\* an integer of magnitude below 2^17 as a float64 (exact)
FromInt(n) ==
    IF n = 0 THEN Zero
    ELSE LET k == BitLen(Abs(n)) - 1
         IN  [sign |-> Sgn(n), exp |-> k - 52, mant |-> <<Abs(n) * 2^(16 - k), 0, 0>>]

FLt(a, b) ==
    LET sa == IF IsZero(a) THEN 0 ELSE a.sign
        sb == IF IsZero(b) THEN 0 ELSE b.sign
        MagLt(x, y) == x.exp < y.exp \/ (x.exp = y.exp /\ MantLt(x.mant, y.mant))
    IN  IF a = NaN \/ b = NaN THEN FALSE
        ELSE IF sa # sb THEN sa < sb
        ELSE IF sa = 0 THEN FALSE
        ELSE IF sa = 1 THEN MagLt(a, b)
        ELSE MagLt(b, a)

FLeq(a, b) == a # NaN /\ b # NaN /\ ~FLt(b, a)

FEq(a, b) == FLeq(a, b) /\ FLeq(b, a)

\* n further quotient bits of the restoring division by mantissa d, from
\* the partial quotient q and remainder r; n steps are the first n \div 2
\* steps followed by the rest
DivLoop(q, r, d, n) ==
    LET Step(qr) ==
            LET r2 == MantDbl(qr[2])
                q2 == MantDbl(qr[1])
            IN  IF MantLt(r2, d) THEN <<q2, r2>>
                ELSE <<MantInc(q2), MantSub(r2, d)>>
        steps[s \in Nat \X (Seq(Nat) \X Seq(Nat))] ==
            IF s[1] = 0 THEN s[2]
            ELSE IF s[1] = 1 THEN Step(s[2])
            ELSE steps[<<s[1] - s[1] \div 2, steps[<<s[1] \div 2, s[2]>>]>>]
    IN  steps[<<n, <<q, r>>>>]

\* x / y, correctly rounded, for finite x and y; x / 0 is an infinity and
\* 0 / 0 a NaN (numpy warns and goes on)
\* the 53-bit quotient qr[1] left with remainder qr[2] by the division by
\* mantissa d, rounded: up when twice the remainder exceeds d, or equals it
\* and the quotient is odd
RoundQuotient(s, e, qr, d) ==
    Pack(s, e, qr[1],
         MantLt(d, MantDbl(qr[2])) \/ (MantDbl(qr[2]) = d /\ qr[1][3] % 2 = 1))

FDiv(x, y) ==
    IF IsZero(y) THEN (IF IsZero(x) THEN NaN
                       ELSE IF x.sign = 1 THEN PosInf ELSE NegInf)
    ELSE IF IsZero(x) THEN Zero
    ELSE IF MantLt(x.mant, y.mant)
    THEN RoundQuotient(x.sign * y.sign, x.exp - y.exp - 53,
                       DivLoop(<<0, 0, 0>>, x.mant, y.mant, 53), y.mant)
    ELSE RoundQuotient(x.sign * y.sign, x.exp - y.exp - 52,
                       DivLoop(<<0, 0, 1>>, MantSub(x.mant, y.mant), y.mant, 52), y.mant)

\* n * x, correctly rounded, for an integer n of magnitude below 2^13
\* The product with limbs <<p2, m1, m0>>, p2 of 17 + s bits (w = 2^s), rounded
\* to its 53 leading bits: up when the s bits dropped exceed half of w, or
\* are half of it and the mantissa kept is odd
RoundProduct(sign, e, p2, m1, m0, s, w) ==
    LET v    == LimbBase \div w
        mant == <<p2 \div w, (p2 % w) * v + m1 \div w, (m1 % w) * v + m0 \div w>>
        rem  == m0 % w
    IN  Pack(sign, e + s, mant,
             s > 0 /\ (2 * rem > w \/ (2 * rem = w /\ mant[3] % 2 = 1)))

\* the limb products p0, p1, p2 with their carries taken out
Product(sign, e, p2, p1, p0) ==
    RoundProduct(sign, e, p2, p1 % LimbBase, p0 % LimbBase,
                 BitLen(p2) - 17, 2^(BitLen(p2) - 17))

FMulInt(n, x) ==
    IF n = 0 \/ IsZero(x) THEN Zero
    ELSE LET a  == Abs(n)
             p0 == a * x.mant[3]
             p1 == a * x.mant[2] + p0 \div LimbBase
             p2 == a * x.mant[1] + p1 \div LimbBase
         IN  Product(Sgn(n) * x.sign, x.exp, p2, p1, p0)

\* int(x): truncation toward zero, for |x| < 2^17
FTrunc(x) ==
    IF IsZero(x) \/ x.exp < -52 THEN 0
    ELSE x.sign * (x.mant[1] \div 2^(-36 - x.exp))

FNeg(x) == [x EXCEPT !.sign = -x.sign]

(***************************************************************************)
(* Configuration                                                           *)
(***************************************************************************)
WINDOW_ORIENTATION == 150

DESK_BOUNDS == [min |-> <<60 + 12, 108, 30>>, max |-> <<122 - 12, 132, 54>>]

WINDOW_BOUNDS ==
    [Window1 |-> [min |-> <<148, 98, 44>>, max |-> <<148, 126, 90>>,
                  top_rail_id |-> "office_1_bottom_up",
                  bottom_rail_id |-> "office_1_top_down"],
     Window2 |-> [min |-> <<159, 18, 24>>, max |-> <<159, 59, 90>>,
                  top_rail_id |-> "office_1_bottom_up",
                  bottom_rail_id |-> "office_2_top_down"]]

(***************************************************************************)
(* Inputs: the integer rays of the ray test, the sun angles and trigonometry *)
(***************************************************************************)
RayCoords == {0, 3, 9}

RayOrigins == {0, 3}

RayDirections == {-15, -5, 0, 5, 15}

Azimuths == {60, 105, 150, 195}

Elevations == {0, 30, 89}

\* np.cos(np.radians(deg)) in float64, for the angles the model uses
cos(deg) ==
    CASE deg = 0   -> One
      [] deg = 45  -> [sign |-> 1, exp |-> -53, mant |-> <<92681, 235935, 211917>>]
      [] deg = 270 -> [sign |-> -1, exp |-> -105, mant |-> <<108435, 152359, 166410>>]
      [] deg = 315 -> [sign |-> 1, exp |-> -53, mant |-> <<92681, 235935, 211915>>]

\* np.sin(np.radians(deg)) in float64, for the angles the model uses
sin(deg) ==
    CASE deg = 0   -> Zero
      [] deg = 30  -> [sign |-> 1, exp |-> -54, mant |-> <<131071, 262143, 262143>>]
      [] deg = 45  -> [sign |-> 1, exp |-> -53, mant |-> <<92681, 235935, 211916>>]
      [] deg = 89  -> [sign |-> 1, exp |-> -53, mant |-> <<131052, 9725, 110474>>]
      [] deg = 270 -> [sign |-> -1, exp |-> -52, mant |-> MantMin]
      [] deg = 315 -> [sign |-> -1, exp |-> -53, mant |-> <<92681, 235935, 211918>>]

\* the nonzero direction components the inputs give rise to
DirectionComponents ==
    LET angles == {a - WINDOW_ORIENTATION + (IF a < WINDOW_ORIENTATION THEN 360 ELSE 0) :
                      a \in Azimuths}
        all == {FromInt(d) : d \in RayDirections} \cup {cos(a) : a \in angles}
                 \cup {sin(a) : a \in angles} \cup {sin(e) : e \in Elevations}
    IN  {x \in all \cup {FNeg(x) : x \in all} : ~IsZero(x)}

\* 1.0 / x for each of them, computed once
Reciprocal == [x \in DirectionComponents |-> FDiv(One, x)]

(***************************************************************************)
(* ray_intersects_cuboid                                                   *)
(***************************************************************************)
\* One pass of "for i in range(3)" from axis i on (axes x, y, z are 1, 2, 3),
\* with the interval [t_near, t_far] found so far.  Coordinates are integers,
\* direction components float64.
Ordered_NoSwap(t1, t2) == <<t1, t2>>

\* "if t1 > t2: t1, t2 = t2, t1"
Ordered(t1, t2) == IF FLt(t2, t1) THEN <<t2, t1>> ELSE <<t1, t2>>

\* t1 and t2 of one axis, in order, from inv_dir and the distances lo and hi
\* of the origin to the two faces
SlabTimes(lo, hi, inv_dir) == Ordered(FMulInt(lo, inv_dir), FMulInt(hi, inv_dir))

\* "if t1 > t_near: t_near = t1" and "if t2 < t_far: t_far = t2", t = <<t1, t2>>
Narrowed(t_near, t_far, t) ==
    <<IF FLt(t_near, t[1]) THEN t[1] ELSE t_near,
      IF FLt(t[2], t_far) THEN t[2] ELSE t_far>>

\* "if t_near > t_far or t_far < 0", t = <<t_near, t_far>>
Missed(t) == FLt(t[2], t[1]) \/ FLt(t[2], Zero)

RECURSIVE SlabLoop(_, _, _, _, _, _, _)
\* the end of iteration i, which left t = <<t_near, t_far>>, and the
\* iterations after it
SlabRest(i, t, ray_origin, ray_direction, cuboid_min, cuboid_max) ==
    IF Missed(t) THEN FALSE
    ELSE SlabLoop(i + 1, t[1], t[2], ray_origin, ray_direction, cuboid_min, cuboid_max)

SlabLoop(i, t_near, t_far, ray_origin, ray_direction, cuboid_min, cuboid_max) ==
    IF i > 3 THEN TRUE
    ELSE IF IsZero(ray_direction[i])
    THEN IF ray_origin[i] < cuboid_min[i] \/ ray_origin[i] > cuboid_max[i]
         THEN FALSE
         ELSE SlabLoop(i + 1, t_near, t_far, ray_origin, ray_direction,
                       cuboid_min, cuboid_max)
    ELSE SlabRest(i, Narrowed(t_near, t_far,
                              SlabTimes(cuboid_min[i] - ray_origin[i],
                                        cuboid_max[i] - ray_origin[i],
                                        Reciprocal[ray_direction[i]])),
                  ray_origin, ray_direction, cuboid_min, cuboid_max)

ray_intersects_cuboid(ray_origin, ray_direction, cuboid_min, cuboid_max) ==
    SlabLoop(1, NegInf, PosInf, ray_origin, ray_direction, cuboid_min, cuboid_max)

(***************************************************************************)
(* The ray test on its own: integer rays against integer boxes.            *)
(***************************************************************************)
RayBoxes == {b \in [min : RayCoords \X RayCoords \X RayCoords,
                    max : RayCoords \X RayCoords \X RayCoords] :
                \A i \in 1..3 : b.min[i] <= b.max[i]}

RayInputs == [origin : RayOrigins \X RayOrigins \X RayOrigins,
              direction : RayDirections \X RayDirections \X RayDirections,
              box : RayBoxes]

NoResult == [returned |-> FALSE]

Raised(e) == [returned |-> FALSE, raised |-> e]

Returned(v) == [returned |-> TRUE, value |-> v]

Idle == [pc |-> "idle"]

RayInit ==
    /\ ray_args \in RayInputs
    /\ ray_ret = NoResult
    /\ args = Idle /\ ret = NoResult /\ pc = "idle" /\ sun_pos = Idle
    /\ percents = Idle /\ json_output = Idle /\ posted = <<>>

\* ray_intersects_cuboid(origin, direction, box.min, box.max); an integer
\* direction component enters 1.0 / d as the float64 of the same value
RayCall ==
    /\ ray_ret = NoResult
    /\ ray_ret' = Returned(ray_intersects_cuboid(ray_args.origin,
                      [i \in 1..3 |-> FromInt(ray_args.direction[i])],
                      ray_args.box.min, ray_args.box.max))
    /\ UNCHANGED <<ray_args, args, ret, pc, sun_pos, percents, json_output, posted>>

RayNext == RayCall

SpecRay == RayInit /\ [][RayNext]_vars

\* The points of the ray are origin + t * direction, t >= 0.  The set of t
\* that put the point inside the closed box is an intersection of closed
\* intervals, so when it is not empty it contains t = 0 or a t at which the
\* ray crosses one of the six face planes: these are the candidates p / q.
CrossingTimes(o, d, box) ==
    {<<0, 1>>} \cup
    {<<(c[2] - o[c[1]]) * Sgn(d[c[1]]), Abs(d[c[1]])>> :
        c \in {c \in (1..3) \X RayCoords :
                 d[c[1]] # 0 /\ c[2] \in {box.min[c[1]], box.max[c[1]]}}}

RayMeetsBox(o, d, box) ==
    \E t \in CrossingTimes(o, d, box) :
        /\ t[1] >= 0
        /\ \A i \in 1..3 :
              /\ box.min[i] * t[2] <= o[i] * t[2] + t[1] * d[i]
              /\ o[i] * t[2] + t[1] * d[i] <= box.max[i] * t[2]

\* C1: ray_intersects_cuboid returns True if and only if some point
\* origin + t * direction with t >= 0 lies in the closed box (so a ray that
\* only touches a face, an edge or a corner is reported as intersecting).
C1_SlabExact ==
    ray_ret.returned =>
        (ray_ret.value <=> RayMeetsBox(ray_args.origin, ray_args.direction, ray_args.box))

(***************************************************************************)
(* calculate_shading_requirements                                          *)
(***************************************************************************)
range_Inclusive(start, stop) == [k \in 1..(stop - start + 1) |-> start + k - 1]

\* range(start, stop): start, start + 1, ..., stop - 1
range(start, stop) == [k \in 1..(stop - start) |-> start + k - 1]

\* min_z, max_z = np.inf, -np.inf and total_rays = 0; an infinity is <<>>,
\* a sampled z is <<z>>
NoRays == [min_z |-> <<>>, max_z |-> <<>>, total_rays |-> 0]

RecordHit_Swapped(acc, z) ==
    [min_z      |-> IF acc.min_z = <<>> \/ z > acc.min_z[1] THEN <<z>> ELSE acc.min_z,
     max_z      |-> IF acc.max_z = <<>> \/ z < acc.max_z[1] THEN <<z>> ELSE acc.max_z,
     total_rays |-> acc.total_rays + 1]

\* the body of "if ray_intersects_cuboid(...)"
RecordHit(acc, z) ==
    [min_z      |-> IF acc.min_z = <<>> \/ z < acc.min_z[1] THEN <<z>> ELSE acc.min_z,
     max_z      |-> IF acc.max_z = <<>> \/ z > acc.max_z[1] THEN <<z>> ELSE acc.max_z,
     total_rays |-> acc.total_rays + 1]

RayDirection(relative_azimuth, elevation) ==
    <<FNeg(cos(relative_azimuth)), sin(relative_azimuth), FNeg(sin(elevation))>>

\* The two nested loops over the window's y and z.  The iterations run in
\* the code's order, one after the other, each on the accumulators the one
\* before left; a stretch of iterations is evaluated as its first half
\* followed by its second half.
SampleWindow(relative_azimuth, elevation, desk_min, desk_max, window_min, window_max) ==
    LET ys == range(window_min[2], window_max[2])
        zs == range(window_min[3], window_max[3])
        Acc == [min_z : Seq(Int), max_z : Seq(Int), total_rays : Nat]
        \* the loop body at y = ys[j], z = zs[k]
        Body(j, k, acc) ==
            LET ray_origin == <<window_min[1], ys[j], zs[k]>>
                ray_direction == RayDirection(relative_azimuth, elevation)
            IN  IF ray_intersects_cuboid(ray_origin, ray_direction, desk_min, desk_max)
                THEN RecordHit(acc, zs[k])
                ELSE acc
        \* "for z in range(...)": positions s[2]..s[3] of zs, at y = ys[s[1]]
        forz[s \in Nat \X Nat \X Nat \X Acc] ==
            IF s[2] > s[3] THEN s[4]
            ELSE IF s[2] = s[3] THEN Body(s[1], s[2], s[4])
            ELSE LET mid == (s[2] + s[3]) \div 2
                 IN  forz[<<s[1], mid + 1, s[3], forz[<<s[1], s[2], mid, s[4]>>]>>]
        \* "for y in range(...)": positions s[1]..s[2] of ys
        fory[s \in Nat \X Nat \X Acc] ==
            IF s[1] > s[2] THEN s[3]
            ELSE IF s[1] = s[2] THEN forz[<<s[1], 1, Len(zs), s[3]>>]
            ELSE LET mid == (s[1] + s[2]) \div 2
                 IN  fory[<<mid + 1, s[2], fory[<<s[1], mid, s[3]>>]>>]
    IN  fory[<<1, Len(ys), NoRays>>]

FullyOpen_BottomClosed(total_rays, relative_azimuth, elevation) ==
    [top_percent |-> Zero, bottom_percent |-> One, total_rays |-> total_rays,
     relative_azimuth |-> relative_azimuth, elevation |-> elevation]

FullyOpen_Closed(total_rays, relative_azimuth, elevation) ==
    [top_percent |-> One, bottom_percent |-> One, total_rays |-> total_rays,
     relative_azimuth |-> relative_azimuth, elevation |-> elevation]

\* "return 0, 0, total_rays, relative_azimuth, elevation"
FullyOpen(total_rays, relative_azimuth, elevation) ==
    [top_percent |-> Zero, bottom_percent |-> Zero, total_rays |-> total_rays,
     relative_azimuth |-> relative_azimuth, elevation |-> elevation]

ShadePercent_NotNormalised(window_max_z, z, window_height) ==
    FromInt(window_max_z - z)

ShadePercent_FromBottom(window_max_z, z, window_height) ==
    FDiv(FromInt(z - (window_max_z - window_height)), FromInt(window_height))

\* (window_max[2] - z) / window_height
ShadePercent(window_max_z, z, window_height) ==
    FDiv(FromInt(window_max_z - z), FromInt(window_height))

\* what follows the loops: window_height and the two return statements, on
\* the accumulators acc the loops left
Requirements(acc, window_min, window_max, relative_azimuth, elevation) ==
    LET window_height == window_max[3] - window_min[3]
    IN  IF acc.total_rays = 0
        THEN FullyOpen(acc.total_rays, relative_azimuth, elevation)
        ELSE [top_percent |-> IF acc.max_z # <<>>
                              THEN ShadePercent(window_max[3], acc.max_z[1], window_height)
                              ELSE Zero,
              bottom_percent |-> IF acc.min_z # <<>>
                                 THEN ShadePercent(window_max[3], acc.min_z[1], window_height)
                                 ELSE One,
              total_rays |-> acc.total_rays,
              relative_azimuth |-> relative_azimuth,
              elevation |-> elevation]

calculate_shading_requirements(sun_position, desk_min, desk_max, window_min, window_max, window_orientation) ==
    LET difference == sun_position.azimuth - WINDOW_ORIENTATION
        relative_azimuth == IF difference < 0 THEN difference + 360 ELSE difference
    IN  Requirements(SampleWindow(relative_azimuth, sun_position.elevation,
                                  desk_min, desk_max, window_min, window_max),
                     window_min, window_max, relative_azimuth, sun_position.elevation)

(***************************************************************************)
(* The sampler on its own: one call on inputs drawn from small windows and *)
(* desks and from the configured ones.                                     *)
(***************************************************************************)
MaxCoord == 3

SunPositions == {[azimuth |-> a, elevation |-> e] : a \in Azimuths, e \in Elevations}

Orientations == {WINDOW_ORIENTATION, 90}

SmallDesks == {[min |-> <<0, 0, 0>>, max |-> <<1, 1, 1>>],
               [min |-> <<1, 1, 0>>, max |-> <<MaxCoord, MaxCoord, 1>>]}

\* every y-range and z-range over 0..MaxCoord, the empty and the inverted
\* ones included
SmallWindows == {[min |-> <<MaxCoord, r[1], r[3]>>, max |-> <<MaxCoord, r[2], r[4]>>] :
                    r \in (0..MaxCoord) \X (0..MaxCoord) \X (0..MaxCoord) \X (0..MaxCoord)}

ConfiguredWindows == {[min |-> WINDOW_BOUNDS[w].min, max |-> WINDOW_BOUNDS[w].max] :
                         w \in DOMAIN WINDOW_BOUNDS}

SampleInputs ==
    [sun_position : SunPositions, desk : SmallDesks, window : SmallWindows,
     window_orientation : Orientations]
    \cup
    [sun_position : SunPositions, desk : {DESK_BOUNDS}, window : ConfiguredWindows,
     window_orientation : {WINDOW_ORIENTATION}]

SampleInit ==
    /\ args \in SampleInputs
    /\ ret = NoResult
    /\ ray_args = Idle /\ ray_ret = NoResult /\ pc = "idle" /\ sun_pos = Idle
    /\ percents = Idle /\ json_output = Idle /\ posted = <<>>

SampleCall ==
    /\ ~ret.returned
    /\ ret' = Returned(calculate_shading_requirements(args.sun_position,
                  args.desk.min, args.desk.max, args.window.min, args.window.max,
                  args.window_orientation))
    /\ UNCHANGED <<ray_args, ray_ret, args, pc, sun_pos, percents, json_output, posted>>

SampleNext == SampleCall

SpecSample == SampleInit /\ [][SampleNext]_vars

(***************************************************************************)
(* calculate_current_shade_positions and the polling loop                  *)
(***************************************************************************)
top_position(top_percent) == FTrunc(FMulInt(100, top_percent))

bottom_position_NotInverted(bottom_percent) == FTrunc(FMulInt(100, bottom_percent))

bottom_position(bottom_percent) == 100 - FTrunc(FMulInt(100, bottom_percent))

\* the locals of "for window_name, bounds in WINDOW_BOUNDS.items()" at the
\* end of each window's iteration
Positions(top_percent, bottom_percent) ==
    [top_percent     |-> top_percent,
     bottom_percent  |-> bottom_percent,
     top_position    |-> top_position(top_percent),
     bottom_position |-> bottom_position(bottom_percent)]

\* "top_percent, bottom_percent, ... = calculate_shading_requirements(...)"
\* and the two positions
WindowLocals(r) == Positions(r.top_percent, r.bottom_percent)

ShadeLoop(sun) ==
    [window_name \in DOMAIN WINDOW_BOUNDS |->
        WindowLocals(calculate_shading_requirements(sun, DESK_BOUNDS.min, DESK_BOUNDS.max,
                         WINDOW_BOUNDS[window_name].min, WINDOW_BOUNDS[window_name].max,
                         WINDOW_ORIENTATION))]

\* the evaluation of each sun position the provider can report, computed once
Evaluations == [sun \in SunPositions |-> ShadeLoop(sun)]

MaxPosts == 2

Init ==
    /\ pc = "calculate"
    /\ sun_pos = Idle /\ percents = Idle /\ json_output = Idle
    /\ posted = <<>>
    /\ ray_args = Idle /\ ray_ret = NoResult /\ args = Idle /\ ret = NoResult

\* json_output = calculate_current_shade_positions(), the sun where the
\* provider reports it
Calculate ==
    /\ pc = "calculate"
    /\ \E sun \in SunPositions :
          LET locals == Evaluations[sun]
          IN  /\ sun_pos' = sun
              /\ percents' = [w \in DOMAIN locals |->
                                 [top_percent |-> locals[w].top_percent,
                                  bottom_percent |-> locals[w].bottom_percent]]
              /\ json_output' = [w \in DOMAIN locals |->
                                    [top |-> locals[w].top_position,
                                     bottom |-> locals[w].bottom_position]]
    /\ pc' = "post"
    /\ UNCHANGED <<posted, ray_args, ray_ret, args, ret>>

\* requests.post(NODE_RED_ENDPOINT, json=json_output) returns a response
Post ==
    /\ pc = "post"
    /\ Len(posted) < MaxPosts
    /\ posted' = Append(posted, json_output)
    /\ pc' = "sleep"
    /\ UNCHANGED <<sun_pos, percents, json_output, ray_args, ray_ret, args, ret>>

\* requests.post raises (the endpoint cannot be reached): nothing catches it
PostFails ==
    /\ pc = "post"
    /\ pc' = "crashed"
    /\ UNCHANGED <<sun_pos, percents, json_output, posted, ray_args, ray_ret, args, ret>>

\* time.sleep(300)
Sleep ==
    /\ pc = "sleep"
    /\ pc' = "calculate"
    /\ UNCHANGED <<sun_pos, percents, json_output, posted, ray_args, ray_ret, args, ret>>

Next == Calculate \/ Post \/ PostFails \/ Sleep

Spec == Init /\ [][Next]_vars

(***************************************************************************)
(* Properties of calculate_shading_requirements (under SpecSample)         *)
(***************************************************************************)
Result == ret.value

WindowHeight == args.window.max[3] - args.window.min[3]

\* the integer points (y, z) of the half-open window grid
SampledPoints ==
    (args.window.min[2] .. args.window.max[2] - 1) \X
    (args.window.min[3] .. args.window.max[3] - 1)

\* the sampled points whose ray, from (window_min.x, y, z) along the one
\* direction of the call, passes the code's intersection test
ObstructedPoints ==
    {p \in SampledPoints :
        ray_intersects_cuboid(<<args.window.min[1], p[1], p[2]>>,
                              RayDirection(Result.relative_azimuth, Result.elevation),
                              args.desk.min, args.desk.max)}

HighestZ(points) == CHOOSE z \in {p[2] : p \in points} : \A p \in points : p[2] <= z

LowestZ(points) == CHOOSE z \in {p[2] : p \in points} : \A p \in points : z <= p[2]

Quotient(n, d) == FDiv(FromInt(n), FromInt(d))

\* C2: top_percent and bottom_percent both lie in the closed interval [0, 1].
C2_PercentsInUnitInterval ==
    ret.returned =>
        /\ FLeq(Zero, Result.top_percent) /\ FLeq(Result.top_percent, One)
        /\ FLeq(Zero, Result.bottom_percent) /\ FLeq(Result.bottom_percent, One)

C2_Witness ==
    /\ ret.returned
    /\ Result.total_rays > 0
    /\ FLt(Result.top_percent, Result.bottom_percent)
    /\ FLt(Result.bottom_percent, One)

\* C3: when no sampled ray is obstructed (ray count 0) the result is
\* top_percent = 0 and bottom_percent = 0, whatever the window, an empty
\* y-range or z-range included.
C3_NoRaysFullyOpen ==
    (ret.returned /\ Result.total_rays = 0) =>
        /\ Result.top_percent = Zero
        /\ Result.bottom_percent = Zero

C3_Witness ==
    /\ ret.returned
    /\ Result.total_rays = 0
    /\ args.window.min[3] = args.window.max[3]
    /\ args.window.min[2] < args.window.max[2]

C5_RelativeAzimuthOfArgument ==
    ret.returned =>
        /\ Result.relative_azimuth =
               (args.sun_position.azimuth - args.window_orientation) % 360
        /\ Result.relative_azimuth \in 0..359

\* C7: one ray per integer point of the half-open grid, from
\* (window_min.x, y, z) along one direction; the ray count is the number of
\* obstructed points, and when it is positive top_percent is
\* (window_max.z - M) / height and bottom_percent (window_max.z - m) / height
\* for the largest and smallest obstructed z, M and m.
C7_CountAndExtent ==
    ret.returned =>
        /\ Result.total_rays = Cardinality(ObstructedPoints)
        /\ Result.total_rays > 0 =>
              /\ Result.top_percent =
                     Quotient(args.window.max[3] - HighestZ(ObstructedPoints), WindowHeight)
              /\ Result.bottom_percent =
                     Quotient(args.window.max[3] - LowestZ(ObstructedPoints), WindowHeight)

C7_Witness ==
    /\ ret.returned
    /\ Result.total_rays > 1
    /\ Result.total_rays < Cardinality(SampledPoints)
    /\ Result.top_percent # Result.bottom_percent

Window1Box == [min |-> WINDOW_BOUNDS.Window1.min, max |-> WINDOW_BOUNDS.Window1.max]

Scenario(elevation) ==
    /\ ret.returned
    /\ args.sun_position = [azimuth |-> 150, elevation |-> elevation]
    /\ args.desk = DESK_BOUNDS
    /\ args.window = Window1Box

\* C8: desk (72,108,30)-(110,132,54), window (148,98,44)-(148,126,90),
\* relative azimuth 0, elevation 30: at least one sampled ray is obstructed
\* and top_percent is strictly between 0 and 1.
C8_Elevation30Obstructed ==
    Scenario(30) =>
        /\ Result.relative_azimuth = 0
        /\ Result.total_rays >= 1
        /\ FLt(Zero, Result.top_percent)
        /\ FLt(Result.top_percent, One)

C8_Witness == Scenario(30) /\ Result.total_rays = 738

\* C9 as stated: same desk and window, azimuth 150, elevation 89: no sampled
\* ray is obstructed, the ray count is 0 and the result is top 0, bottom 0.
C9_Elevation89Unobstructed ==
    Scenario(89) =>
        /\ Result.total_rays = 0
        /\ Result.top_percent = Zero
        /\ Result.bottom_percent = Zero

\* C9 as the code has it: the direction (-1, 0, -sin 89) falls one unit per
\* unit travelled, so the rays from y in 108..125, z in 68..89 are obstructed:
\* the ray count is 396, top_percent 1/46 and bottom_percent 22/46.
C9_Elevation89Obstructed ==
    Scenario(89) =>
        /\ Result.relative_azimuth = 0
        /\ ObstructedPoints = (108..125) \X (68..89)
        /\ Result.total_rays = 396
        /\ Result.top_percent = Quotient(1, 46)
        /\ Result.bottom_percent = Quotient(22, 46)

C9_Witness == Scenario(89) /\ Result.total_rays > 0

\* C10: top_percent <= bottom_percent; top_percent = 0 exactly when the ray
\* count is 0, and with at least one obstructed ray top_percent >= 1 / height.
C10_TopAboveBottom ==
    ret.returned =>
        /\ FLeq(Result.top_percent, Result.bottom_percent)
        /\ Result.top_percent = Zero <=> Result.total_rays = 0
        /\ Result.total_rays > 0 => FLeq(Quotient(1, WindowHeight), Result.top_percent)

C10_Witness ==
    /\ ret.returned
    /\ Result.total_rays > 0
    /\ Result.top_percent = Quotient(1, WindowHeight)
    /\ FLt(Result.top_percent, Result.bottom_percent)

(***************************************************************************)
(* Properties of the emitted positions (under Spec)                        *)
(***************************************************************************)
\* floor(100 * x) for a float64 0 <= x <= 1, from the exact product
Floor100(x) ==
    IF IsZero(x) \/ x.exp < -66 THEN 0
    ELSE LET p0 == 100 * x.mant[3]
             p1 == 100 * x.mant[2] + p0 \div LimbBase
             p2 == 100 * x.mant[1] + p1 \div LimbBase
         IN  p2 \div 2^(-36 - x.exp)

Emitted == pc # "calculate" \/ posted # <<>>

\* C6 as stated: top and bottom are integers in 0..100, top the floor of
\* 100 * top_percent and bottom the floor of 100 * bottom_percent.
C6_BothFloors ==
    Emitted =>
        \A w \in DOMAIN json_output :
            /\ json_output[w].top \in 0..100
            /\ json_output[w].bottom \in 0..100
            /\ json_output[w].top = Floor100(percents[w].top_percent)
            /\ json_output[w].bottom = Floor100(percents[w].bottom_percent)

\* C6 as the code has it: top and bottom are integers in 0..100, top the
\* floor of 100 * top_percent and bottom 100 minus the floor of
\* 100 * bottom_percent.
C6_TopFloorBottomComplement ==
    Emitted =>
        \A w \in DOMAIN json_output :
            /\ json_output[w].top \in 0..100
            /\ json_output[w].bottom \in 0..100
            /\ json_output[w].top = Floor100(percents[w].top_percent)
            /\ json_output[w].bottom = 100 - Floor100(percents[w].bottom_percent)

C6_Witness ==
    /\ Emitted
    /\ json_output.Window1.top = 2
    /\ json_output.Window1.bottom = 11
    /\ json_output.Window2 = [top |-> 0, bottom |-> 100]

====
